---- MODULE Spec2Model ----
(***************************************************************************)
(* Buffer / Worker / ResponseFuture of src/src/buffer/mod.rs.              *)
(*                                                                         *)
(* Handles (Buffer clones) push Messages into a bounded futures-0.1 mpsc   *)
(* channel; one Worker owns the DirectService, pulls the messages and      *)
(* dispatches them; each request has a oneshot channel that carries the    *)
(* service's future back to the caller's ResponseFuture.                   *)
(*                                                                         *)
(* The mpsc channel follows futures 0.1: a sender whose accepted message   *)
(* makes num_messages exceed the buffer is parked; a parked sender's       *)
(* try_send fails and its poll_ready is NotReady until the receiver pops a *)
(* message and unparks it; dropping the receiver closes the channel,       *)
(* wakes every parked sender and drops the queued messages.                *)
(***************************************************************************)
EXTENDS Integers, Sequences, FiniteSets, TLC

\* ---------------------------------------------------------------- bounds
MaxReq == 3
MaxHandles == 2
MaxBound == 1

Req == 1..MaxReq
Handles == 1..MaxHandles

VARIABLES
    bound,            \* the `bound` argument of Buffer::new
    open,             \* State.open
    handles,          \* Buffer clones: "unborn", "alive", "dropped"
    is_parked,        \* per mpsc::Sender: parked by the channel
    parked_queue,     \* the channel's queue of parked senders
    chan,             \* the channel's message queue (request ids)
    nextReq,          \* id of the next request passed to Buffer::call
    resp,             \* ResponseFuture.state per request, or its outcome
    oneshot,          \* oneshot channel per request: "empty", "sent", or
                      \* "closed" (an end was dropped, nothing is left to take)
    wpc,              \* position of the worker task
    msg,              \* the message Worker::poll holds (0: none)
    current_message,  \* Worker.current_message (0: None)
    finish,           \* Worker.finish
    any_outstanding,  \* local of Worker::poll (TRUE while no poll is running)
    term,             \* why Worker::poll left its loop for good
    calls,            \* requests passed to service.call, in order
    accepted,         \* requests accepted by try_send, in order
    early,            \* requests whose handle was dropped before the worker examined them
    fatal,            \* the message held when service.poll_ready failed (m = 0: none),
                      \* with Len(calls) and nextReq of that moment
    spawned,          \* whether executor.execute(worker) accepted the worker
    built,            \* how Buffer::new ended
    outstanding_done  \* poll_outstanding answered Ready since the last service.call

vars == <<bound, open, handles, is_parked, parked_queue, chan, nextReq, resp,
          oneshot, wpc, msg, current_message, finish, any_outstanding, term,
          calls, accepted, early, fatal, spawned, built,
          outstanding_done>>

Range(s) == {s[i] : i \in 1..Len(s)}

\* ------------------------------------------------------------ mpsc channel

\* The receiver half is gone once the worker task has been dropped.
RxDropped == wpc = "done"

\* Every Sender is dropped: the stream ends after the queued messages.
SendersGone == \A h \in Handles : handles[h] # "alive"

\* inc_num_messages: the sender parks when the count exceeds the buffer.
ParkSelf(n, b) == n > b

\* mutant: the message is pushed at the head of the queue
EnqueueFront(q, r) == <<r>> \o q

\* queue_push_and_signal: messages are appended at the tail.
Enqueue(q, r) == Append(q, r)

\* Sender::try_send for handle h.
TrySend(h) ==
    IF is_parked[h] THEN "Full"
    ELSE IF RxDropped THEN "Disconnected"
    ELSE "Ok"

\* Sender::poll_ready for handle h.
TxPollReady(h) ==
    IF RxDropped THEN "Err"
    ELSE IF is_parked[h] THEN "NotReady"
    ELSE "Ready"

\* Receiver::unpark_one, k times: the first k parked senders are woken.
Woken(k) ==
    {parked_queue[i] : i \in 1..(IF k < Len(parked_queue) THEN k ELSE Len(parked_queue))}

ParkedAfter(k) ==
    IF k >= Len(parked_queue) THEN <<>>
    ELSE SubSeq(parked_queue, k + 1, Len(parked_queue))

\* -------------------------------------------------------------- Buffer

\* mutant: the error of tx.poll_ready() is not mapped to Closed
BufferPollReadyIgnoreTx(h) ==
    IF ~open THEN "Closed"
    ELSE IF is_parked[h] THEN "NotReady"
    ELSE "Ready"

\* Buffer::poll_ready
BufferPollReady(h) ==
    IF ~open THEN "Closed"
    ELSE IF TxPollReady(h) = "Err" THEN "Closed"
    ELSE TxPollReady(h)

\* mutant: a successful try_send stores true
OpenAfterCallReopen(sent) == sent = "Ok"

\* Buffer::call: the value of State.open after the try_send
OpenAfterCall(sent) == IF sent = "Ok" THEN open ELSE FALSE

\* mutant: the error of try_send is ignored
FutureOfCallIgnoreErr(sent) == "Rx"

\* Buffer::call: the ResponseFuture it returns
FutureOfCall(sent) == IF sent = "Ok" THEN "Rx" ELSE "Failed"

PollReady(h) ==
    /\ handles[h] = "alive"
    /\ BufferPollReady(h) \in {"Ready", "NotReady", "Closed"}
    /\ UNCHANGED vars

Call(h) ==
    /\ handles[h] = "alive"
    /\ nextReq <= MaxReq
    /\ LET r == nextReq
           sent == TrySend(h)
       IN  /\ nextReq' = r + 1
           /\ open' = OpenAfterCall(sent)
           /\ resp' = [resp EXCEPT ![r] = FutureOfCall(sent)]
           /\ IF sent = "Ok"
              THEN /\ chan' = Enqueue(chan, r)
                   /\ accepted' = Append(accepted, r)
                   /\ IF ParkSelf(Len(chan) + 1, bound)
                      THEN /\ is_parked' = [is_parked EXCEPT ![h] = TRUE]
                           /\ parked_queue' = Append(parked_queue, h)
                      ELSE UNCHANGED <<is_parked, parked_queue>>
              ELSE UNCHANGED <<chan, accepted, is_parked, parked_queue>>
    /\ UNCHANGED <<spawned, built, outstanding_done>>
    /\ UNCHANGED <<bound, handles, oneshot, wpc, msg, current_message, finish,
                   any_outstanding, term, calls, early, fatal>>

\* Buffer::clone
Clone(h, n) ==
    /\ handles[h] = "alive"
    /\ handles[n] = "unborn"
    /\ \A k \in Handles : k < n => handles[k] # "unborn"
    /\ handles' = [handles EXCEPT ![n] = "alive"]
    /\ UNCHANGED <<spawned, built, outstanding_done>>
    /\ UNCHANGED <<bound, open, is_parked, parked_queue, chan, nextReq, resp,
                   oneshot, wpc, msg, current_message, finish, any_outstanding,
                   term, calls, accepted, early, fatal>>

\* drop of a Buffer handle (its mpsc::Sender)
DropHandle(h) ==
    /\ handles[h] = "alive"
    /\ handles' = [handles EXCEPT ![h] = "dropped"]
    /\ UNCHANGED <<spawned, built, outstanding_done>>
    /\ UNCHANGED <<bound, open, is_parked, parked_queue, chan, nextReq, resp,
                   oneshot, wpc, msg, current_message, finish, any_outstanding,
                   term, calls, accepted, early, fatal>>

\* ------------------------------------------------------- ResponseFuture

\* mutant: the inner future's error is reported as Closed
RespPollErrAsClosed(r, f) ==
    CASE resp[r] = "Failed" -> "Closed"
      [] resp[r] = "Rx" /\ oneshot[r] = "empty" -> "Rx"
      [] resp[r] = "Rx" /\ oneshot[r] = "closed" -> "Closed"
      [] resp[r] = "Rx" /\ oneshot[r] = "sent" ->
            (IF f = "Ok" THEN "Ok" ELSE IF f = "Err" THEN "Closed" ELSE "Poll")
      [] resp[r] = "Poll" ->
            (IF f = "Ok" THEN "Ok" ELSE IF f = "Err" THEN "Closed" ELSE "Poll")
      [] OTHER -> resp[r]

\* ResponseFuture::poll with the inner future answering f
RespPoll(r, f) ==
    CASE resp[r] = "Failed" -> "Closed"
      [] resp[r] = "Rx" /\ oneshot[r] = "empty" -> "Rx"
      [] resp[r] = "Rx" /\ oneshot[r] = "closed" -> "Closed"
      [] resp[r] = "Rx" /\ oneshot[r] = "sent" ->
            (IF f = "Ok" THEN "Ok" ELSE IF f = "Err" THEN "Inner" ELSE "Poll")
      [] resp[r] = "Poll" ->
            (IF f = "Ok" THEN "Ok" ELSE IF f = "Err" THEN "Inner" ELSE "Poll")
      [] OTHER -> resp[r]

Pending(r) == resp[r] \in {"Failed", "Rx", "Poll"}

ResponsePoll(r, f) ==
    /\ Pending(r)
    /\ resp' = [resp EXCEPT ![r] = RespPoll(r, f)]
    /\ UNCHANGED <<spawned, built, outstanding_done>>
    /\ UNCHANGED <<bound, open, handles, is_parked, parked_queue, chan, nextReq,
                   oneshot, wpc, msg, current_message, finish, any_outstanding,
                   term, calls, accepted, early, fatal>>

\* The messages the worker has not examined yet.
Unexamined == Range(chan) \cup ({current_message} \ {0})

\* drop of a ResponseFuture that still waits on its oneshot receiver, which
\* is dropped with it (a future dropped in another state is seen by no one)
ResponseDrop(r) ==
    /\ resp[r] = "Rx" 
    /\ resp' = [resp EXCEPT ![r] = "Dropped"]
    /\ early' = IF r \in Unexamined THEN early \cup {r} ELSE early
    /\ oneshot' = [oneshot EXCEPT ![r] = "closed"]
    /\ UNCHANGED <<spawned, built, outstanding_done>>
    /\ UNCHANGED <<bound, open, handles, is_parked, parked_queue, chan, nextReq,
                   wpc, msg, current_message, finish, any_outstanding,
                   term, calls, accepted, fatal>>

\* ---------------------------------------------------------------- Worker

\* mutant: poll_cancel is never taken as Ready
NeverCanceled(r) == FALSE

\* oneshot::Sender::poll_cancel is Ready: the receiver was dropped
Canceled(r) == resp[r] = "Dropped"

\* the `while let` of poll_next_msg: pop until a live message
RECURSIVE SkipCanceled(_)
SkipCanceled(q) ==
    IF q = <<>> THEN <<>>
    ELSE IF Canceled(Head(q)) THEN SkipCanceled(Tail(q))
    ELSE q

\* mutant: the popped message stays in the channel
AfterPopKeep(q) == q

\* what is left in the channel after the message at the head was popped
AfterPop(q) == Tail(q)

\* Worker::poll_next_msg
PollNextMsg ==
    IF finish
    THEN [res |-> "None", m |-> 0, q |-> chan, cur |-> current_message, popped |-> 0]
    ELSE IF current_message # 0 /\ ~Canceled(current_message)
    THEN [res |-> "Some", m |-> current_message, q |-> chan, cur |-> 0, popped |-> 0]
    ELSE LET rest == SkipCanceled(chan) IN
         IF rest # <<>>
         THEN [res |-> "Some", m |-> Head(rest), q |-> AfterPop(rest), cur |-> 0,
               popped |-> Len(chan) - Len(rest) + 1]
         ELSE IF SendersGone
         THEN [res |-> "None", m |-> 0, q |-> <<>>, cur |-> 0, popped |-> Len(chan)]
         ELSE [res |-> "NotReady", m |-> 0, q |-> <<>>, cur |-> 0, popped |-> Len(chan)]

\* the executor polls the worker task
WorkerPoll ==
    /\ wpc = "idle"
    /\ wpc' = "next"
    /\ any_outstanding' = TRUE
    /\ UNCHANGED <<spawned, built, outstanding_done>>
    /\ UNCHANGED <<bound, open, handles, is_parked, parked_queue, chan, nextReq,
                   resp, oneshot, msg, current_message, finish, term, calls,
                   accepted, early, fatal>>

\* mutant: NotReady yields although outstanding work was not polled
AfterNextMsgYieldEarly(res, ao) ==
    CASE res = "Some" -> "ready"
      [] res = "None" -> "post"
      [] OTHER -> "idle"

\* mutant: the end of the stream yields instead of finishing
AfterNextMsgNoneYields(res, ao) ==
    CASE res = "Some" -> "ready"
      [] res = "NotReady" /\ ao -> "post"
      [] OTHER -> "idle"

\* the arms of `match self.poll_next_msg()`: where Worker::poll goes next
AfterNextMsg(res, ao) ==
    CASE res = "Some" -> "ready"
      [] res = "None" -> "post"
      [] res = "NotReady" /\ ao -> "post"
      [] OTHER -> "idle"

\* top of the loop: match self.poll_next_msg()
WorkerNextMsg ==
    /\ wpc = "next"
    /\ LET p == PollNextMsg
           gone == (Range(chan) \cup ({current_message} \ {0})) \
                   (Range(p.q) \cup {p.m} \cup {p.cur})
       IN  /\ chan' = p.q
           /\ current_message' = p.cur
           /\ msg' = p.m
           /\ is_parked' = [h \in Handles |->
                               IF h \in Woken(p.popped) THEN FALSE ELSE is_parked[h]]
           /\ parked_queue' = ParkedAfter(p.popped)
           /\ oneshot' = [r \in Req |-> IF r \in gone THEN "closed" ELSE oneshot[r]]
           /\ finish' = IF p.res = "None" THEN TRUE ELSE finish
           /\ wpc' = AfterNextMsg(p.res, any_outstanding)
           /\ any_outstanding' =
                 IF AfterNextMsg(p.res, any_outstanding) = "idle" THEN TRUE
                 ELSE any_outstanding
    /\ UNCHANGED <<spawned, built, outstanding_done>>
    /\ UNCHANGED <<bound, open, handles, nextReq, resp, term,
                   calls, accepted, early, fatal>>

\* mutant: the request is passed to the service whatever poll_ready answered
CallsAfterReadyAlways(out) == Append(calls, msg)

\* the requests passed to service.call after service.poll_ready() answered out
CallsAfterReady(out) == IF out = "Ready" THEN Append(calls, msg) ELSE calls

\* service.poll_ready() is Ready: call, send the future back, continue
WorkerDispatch ==
    /\ wpc = "ready"
    /\ calls' = CallsAfterReady("Ready")
    /\ outstanding_done' = FALSE
    /\ UNCHANGED <<spawned, built>>
    /\ oneshot' = [oneshot EXCEPT ![msg] = IF Canceled(msg) THEN "closed" ELSE "sent"]
    /\ msg' = 0
    /\ any_outstanding' = TRUE
    /\ wpc' = "next"
    /\ UNCHANGED <<bound, open, handles, is_parked, parked_queue, chan, nextReq,
                   resp, current_message, finish, term, accepted, early, fatal>>

\* service.poll_ready() is NotReady: store the message, `break`
WorkerNotReady ==
    /\ wpc = "ready"
    /\ current_message' = msg
    /\ msg' = 0
    /\ term' = "NotReady"
    /\ wpc' = "ret"
    /\ any_outstanding' = TRUE
    /\ calls' = CallsAfterReady("NotReady")
    /\ UNCHANGED <<spawned, built, outstanding_done>>
    /\ UNCHANGED <<bound, open, handles, is_parked, parked_queue, chan, nextReq,
                   resp, oneshot, finish, accepted, early, fatal>>

\* mutant: the flag is left as it is
OpenKeptAfterReadyErr == open

\* the value stored to State.open when service.poll_ready() is Err
OpenAfterReadyErr == FALSE

\* service.poll_ready() is Err: close and return
WorkerReadyErr ==
    /\ wpc = "ready"
    /\ open' = OpenAfterReadyErr
    /\ fatal' = [m |-> msg, ncalls |-> Len(calls), next |-> nextReq]
    /\ term' = "ReadyErr"
    /\ wpc' = "ret"
    /\ any_outstanding' = TRUE
    /\ calls' = CallsAfterReady("Err")
    /\ UNCHANGED <<spawned, built, outstanding_done>>
    /\ UNCHANGED <<bound, handles, is_parked, parked_queue, chan, nextReq, resp,
                   oneshot, msg, current_message, finish, accepted, early>>

\* mutant: the finishing branch is never taken
FinishingNever == FALSE

\* `if self.finish` after the match
Finishing == finish

\* after the match, not finishing: service.poll_outstanding()
WorkerOutstanding(out) ==
    /\ wpc = "post"
    /\ ~Finishing
    /\ CASE out = "Ready" -> /\ any_outstanding' = FALSE
                             /\ wpc' = "next"
                             /\ UNCHANGED term
         [] out = "NotReady" -> /\ wpc' = "next"
                                /\ UNCHANGED <<any_outstanding, term>>
         [] OTHER -> /\ term' = "OutstandingErr"
                     /\ wpc' = "ret"
                     /\ any_outstanding' = TRUE
    /\ outstanding_done' = IF out = "Ready" THEN TRUE ELSE outstanding_done
    /\ UNCHANGED <<spawned, built>>
    /\ UNCHANGED <<bound, open, handles, is_parked, parked_queue, chan, nextReq,
                   resp, oneshot, msg, current_message, finish, calls, accepted,
                   early, fatal>>

\* after the match, finishing: service.poll_close()
WorkerClose(out) ==
    /\ wpc = "post"
    /\ Finishing
    /\ CASE out = "Ready" -> /\ term' = "CloseOk"
                             /\ wpc' = "ret"
         [] out = "NotReady" -> /\ wpc' = "idle"
                                /\ UNCHANGED term
         [] OTHER -> /\ term' = "CloseErr"
                     /\ wpc' = "ret"
    /\ any_outstanding' = TRUE
    /\ UNCHANGED <<spawned, built, outstanding_done>>
    /\ UNCHANGED <<bound, open, handles, is_parked, parked_queue, chan, nextReq,
                   resp, oneshot, msg, current_message, finish,
                   calls, accepted, early, fatal>>

\* Worker::poll has returned Ready or Err: the executor drops the task, and
\* with it the receiver, the queued messages and the message it holds
WorkerExit ==
    /\ wpc = "ret"
    /\ wpc' = "done"
    /\ chan' = <<>>
    /\ msg' = 0
    /\ current_message' = 0
    /\ oneshot' = [r \in Req |->
                      IF r \in Range(chan) \cup {msg, current_message}
                      THEN "closed" ELSE oneshot[r]]
    /\ is_parked' = [h \in Handles |-> FALSE]
    /\ parked_queue' = <<>>
    /\ UNCHANGED <<spawned, built, outstanding_done>>
    /\ UNCHANGED <<bound, open, handles, nextReq, resp, finish, any_outstanding,
                   term, calls, accepted, early, fatal>>

\* ------------------------------------------------------------------ Spec

ServiceAnswers == {"Ready", "NotReady", "Err"}
FutureAnswers == {"Ok", "Err", "NotReady"}

\* Buffer::new: executor.execute(worker).ok().unwrap(), then Ok(Buffer)
NewResult(executed) == IF executed THEN "Ok" ELSE "Panic"

\* Buffer::new
Init ==
    /\ bound \in 0..MaxBound
    /\ spawned \in BOOLEAN
    /\ built = NewResult(spawned)
    /\ outstanding_done = TRUE
    /\ open = TRUE
    /\ handles = [h \in Handles |-> IF h = 1 /\ built = "Ok" THEN "alive" ELSE "unborn"]
    /\ is_parked = [h \in Handles |-> FALSE]
    /\ parked_queue = <<>>
    /\ chan = <<>>
    /\ nextReq = 1
    /\ resp = [r \in Req |-> "none"]
    /\ oneshot = [r \in Req |-> "empty"]
    /\ wpc = IF built = "Ok" THEN "idle" ELSE "done"
    /\ msg = 0
    /\ current_message = 0
    /\ finish = FALSE
    /\ any_outstanding = TRUE
    /\ term = "none"
    /\ calls = <<>>
    /\ accepted = <<>>
    /\ early = {}
    /\ fatal = [m |-> 0, ncalls |-> 0, next |-> 0]

Next ==
    \/ \E h \in Handles : PollReady(h)
    \/ \E h \in Handles : Call(h)
    \/ \E h, n \in Handles : Clone(h, n)
    \/ \E h \in Handles : DropHandle(h)
    \/ \E r \in Req, f \in FutureAnswers : ResponsePoll(r, f)
    \/ \E r \in Req : ResponseDrop(r)
    \/ WorkerPoll
    \/ WorkerNextMsg
    \/ WorkerDispatch
    \/ WorkerNotReady
    \/ WorkerReadyErr
    \/ \E out \in ServiceAnswers : WorkerOutstanding(out)
    \/ \E out \in ServiceAnswers : WorkerClose(out)
    \/ WorkerExit

Spec == Init /\ [][Next]_vars

\* what Worker::poll returned when it left its loop for reason t
WorkerReturn(t) ==
    CASE t \in {"CloseOk", "NotReady", "ReadyErr"} -> "Ok(Ready)"
      [] t \in {"OutstandingErr", "CloseErr"} -> "Err"
      [] OTHER -> "NotReady"

\* The executor polls the worker task whenever it was woken and runs each
\* poll to its return; the service's poll_close does not stay NotReady
\* for ever.
Fairness ==
    /\ WF_vars(WorkerPoll)
    /\ WF_vars(WorkerNextMsg)
    /\ WF_vars(WorkerDispatch \/ WorkerNotReady \/ WorkerReadyErr)
    /\ WF_vars(\E out \in ServiceAnswers : WorkerOutstanding(out))
    /\ SF_vars(WorkerClose("Ready") \/ WorkerClose("Err"))
    /\ WF_vars(WorkerExit)

FairSpec == Init /\ [][Next]_vars /\ Fairness

\* ---------------------------------------------------------------- claims

RECURSIVE IsSubSeq(_, _)
IsSubSeq(s, t) ==
    IF s = <<>> THEN TRUE
    ELSE IF t = <<>> THEN FALSE
    ELSE IF Head(s) = Head(t) THEN IsSubSeq(Tail(s), Tail(t))
    ELSE IsSubSeq(s, Tail(t))

IsPrefix(s, t) == Len(s) <= Len(t) /\ s = SubSeq(t, 1, Len(s))

Times(r) == Cardinality({i \in 1..Len(calls) : calls[i] = r})

NoneDropped == \A r \in Req : resp[r] # "Dropped"

\* C1: the requests passed to service.call are, in order, a subsequence of
\* the requests in the order the channel accepted them, and a prefix of it
\* as long as no response handle has been dropped.
C1_FifoDispatch ==
    /\ IsSubSeq(calls, accepted)
    /\ NoneDropped => IsPrefix(calls, accepted)

\* C1 witness: two requests dispatched with no handle dropped.
C1_Witness == Len(calls) >= 2 /\ NoneDropped

\* C2 (as claimed): a worker whose service answered NotReady for a live
\* message keeps running; it has not returned from Worker::poll for good.
C2_NotReadyKeepsWorker == term = "NotReady" => wpc # "done"

\* C3 (as claimed): when the worker is gone and the service never failed,
\* every accepted request whose handle was not dropped was passed to
\* service.call exactly once.
C3_ExactlyOnce ==
    (wpc = "done" /\ term \notin {"ReadyErr", "OutstandingErr", "CloseErr"}) =>
        \A r \in Range(accepted) : resp[r] # "Dropped" => Times(r) = 1

\* C4: no request is passed to service.call more than once.
C4_AtMostOnce == \A r \in Req : Times(r) <= 1

\* C4 witness: one request was dispatched and the worker then put a later
\* one back into current_message.
C4_Witness == calls # <<>> /\ current_message # 0

\* C5: a request whose response handle was dropped before the worker
\* examined its message is never passed to service.call.
C5_CancellationSafety == \A r \in early : r \notin Range(calls)

\* C5 witness: a request canceled early was skipped and a later one dispatched.
C5_Witness == \E r \in early : \E i \in 1..Len(calls) : calls[i] > r

C7_MonotonicClosure ==
    /\ open = TRUE
    /\ [][~open => ~open']_vars
    /\ [](~open => \A h \in Handles :
                      handles[h] = "alive" => BufferPollReady(h) = "Closed")

\* C7 witness: open is false while the channel itself would accept from a
\* live handle.
C7_Witness ==
    ~open /\ \E h \in Handles : handles[h] = "alive" /\ TxPollReady(h) = "Ready"

\* C8: after service.poll_ready failed while the worker held a message,
\* open is false, the worker has left its loop, nothing more is dispatched
\* (neither that message nor a later submit), and once the worker is gone
\* every such response handle resolves to Closed.
C8_FatalReadinessError ==
    fatal.m # 0 =>
        /\ ~open
        /\ wpc \in {"ret", "done"}
        /\ Len(calls) = fatal.ncalls
        /\ fatal.m \notin Range(calls)
        /\ \A r \in {fatal.m} \cup (fatal.next .. (nextReq - 1)) :
              /\ r \notin Range(calls)
              /\ resp[r] \in {"Rx", "Failed", "Dropped", "Closed"}
              /\ (wpc = "done" /\ Pending(r)) =>
                    \A f \in FutureAnswers : RespPoll(r, f) = "Closed"

\* C8 witness: the worker is gone after the failure, the message it held
\* resolved to Closed and so did a request submitted afterwards.
C8_Witness ==
    /\ fatal.m # 0 /\ wpc = "done"
    /\ resp[fatal.m] = "Closed"
    /\ \E r \in Req : r >= fatal.next /\ resp[r] = "Closed"

\* C9 (as claimed): a submit made while open is false returns a failed
\* response handle and enqueues nothing.
C9_SubmitAfterClose ==
    [][(~open /\ nextReq' # nextReq) =>
          (resp'[nextReq] = "Failed" /\ chan' = chan)]_vars

\* C10 (as claimed): once the buffer is closed, a response handle whose
\* request has not been dispatched can only resolve to Closed: its request
\* is never dispatched.
C10_PendingResolveClosed ==
    [][\A r \in Req :
          ((~open \/ wpc = "done") /\ resp[r] = "Rx" /\ r \notin Range(calls))
              => r \notin Range(calls')]_vars

\* C11: once the worker task is gone, for whatever reason, poll_ready of
\* every live handle answers Closed, every submit returns a failed handle
\* that resolves to Closed and enqueues nothing, and the worker never runs
\* again.
C11_ClosedAfterTermination ==
    /\ [](wpc = "done" =>
            /\ chan = <<>>
            /\ \A h \in Handles : handles[h] = "alive" =>
                  /\ BufferPollReady(h) = "Closed"
                  /\ FutureOfCall(TrySend(h)) = "Failed"
            /\ \A r \in Req : resp[r] = "Failed" =>
                  \A f \in FutureAnswers : RespPoll(r, f) = "Closed")
    /\ [][wpc = "done" =>
            /\ wpc' = "done"
            /\ calls' = calls
            /\ (nextReq' # nextReq => resp'[nextReq] = "Failed")]_vars

\* C11 witness: the worker ended on a poll_outstanding error, which leaves
\* open true, and a surviving handle's later submit resolved to Closed.
C11_Witness ==
    /\ wpc = "done" /\ term = "OutstandingErr"
    /\ \E h \in Handles : handles[h] = "alive"
    /\ \E r \in Req : r \notin Range(accepted) /\ resp[r] = "Closed"

\* every handle is dropped and no message is queued or held, worker alive
Drained ==
    /\ SendersGone /\ chan = <<>> /\ msg = 0 /\ current_message = 0
    /\ wpc \in {"idle", "next", "post"}

\* C12: a worker that ended because poll_close answered Ready was
\* finishing (all handles dropped, the channel drained, every accepted
\* request dispatched or discarded as canceled), returned Ok and never
\* stored open = false itself; and once the handles are dropped and the
\* channel is drained the worker eventually ends through poll_close (or a
\* service error).
C12_CleanShutdown ==
    /\ [](term = "CloseOk" =>
            /\ wpc \in {"ret", "done"}
            /\ finish /\ SendersGone /\ chan = <<>> /\ current_message = 0
            /\ fatal.m = 0
            /\ WorkerReturn(term) = "Ok(Ready)"
            /\ \A r \in Range(accepted) :
                  r \in Range(calls) \/ resp[r] = "Dropped")
    /\ (Drained ~> (wpc = "done" /\ term \in {"CloseOk", "CloseErr", "OutstandingErr"}))

\* C12 witness: the worker ended cleanly after dispatching a request.
C12_Witness == wpc = "done" /\ term = "CloseOk" /\ calls # <<>> /\ open

\* C13 (as claimed): when the executor refuses the worker, Buffer::new
\* returns the SpawnError value; it does not panic.
C13_SpawnFailureIsValue == ~spawned => built = "SpawnError"

\* C14 (as claimed): open is false only once the worker has returned for
\* good; a submit rejected because the channel is full leaves it true.
C14_OpenFalseOnlyAfterExit == ~open => wpc \in {"ret", "done"}

\* C15 (as claimed): a worker that returns for good without a service
\* error has exhausted the channel and closed the service; it holds no
\* message in current_message.
C15_TerminationCauses ==
    (wpc \in {"ret", "done"} /\ spawned
        /\ term \notin {"ReadyErr", "OutstandingErr", "CloseErr"}) =>
            (term = "CloseOk" /\ current_message = 0)

\* C16: a request is passed to service.call only in the step in which
\* service.poll_ready answered Ready for the message in hand (not NotReady,
\* not an error), one request per such answer, and never while finishing.
C16_ServiceCallProtocol ==
    /\ [][calls' # calls =>
            /\ wpc = "ready" /\ msg # 0 /\ ~finish
            /\ term' = "none" /\ wpc' = "next"
            /\ calls' = Append(calls, msg)]_vars
    /\ [][(wpc = "ready" /\ wpc' = "next") => Len(calls') = Len(calls) + 1]_vars
    /\ [](wpc = "ready" => (msg # 0 /\ ~finish))

\* C16 witness: one request was called after a Ready answer, and for the
\* next message poll_ready failed and nothing more was called.
C16_Witness == Len(calls) = 1 /\ term = "ReadyErr" /\ fatal.m # 0

\* C17: a response handle resolves to the inner error only for a request
\* that was dispatched, in a step that changes nothing but that handle; and
\* the error of a dispatched call is never reported as Closed.
C17_InnerErrorIsolated ==
    /\ [][\A r \in Req :
            (resp'[r] = "Inner" /\ resp[r] # "Inner") =>
                /\ r \in Range(calls) /\ oneshot[r] = "sent"
                /\ \A q \in Req \ {r} : resp'[q] = resp[q]
                /\ UNCHANGED <<open, chan, handles, is_parked, parked_queue,
                               oneshot, wpc, msg, current_message, finish,
                               any_outstanding, term, calls, accepted,
                               nextReq>>]_vars
    /\ [][\A r \in Req :
            (Pending(r) /\ oneshot[r] = "sent" /\ resp'[r] # resp[r]) =>
                resp'[r] \in {"Poll", "Ok", "Inner", "Dropped"}]_vars

\* C17 witness: one call resolved to the inner error while the buffer is
\* open, the worker runs and another response handle is still pending.
C17_Witness ==
    /\ open /\ wpc \notin {"ret", "done"}
    /\ \E r, q \in Req : r # q /\ resp[r] = "Inner" /\ resp[q] \in {"Rx", "Poll"}

\* Worker::poll returns NotReady in this step
Suspends == wpc \in {"next", "post"} /\ wpc' = "idle"

\* C18 (as claimed): the worker suspends only when it holds no message,
\* the channel has none and poll_outstanding answered Ready since the last
\* dispatch.
C18_SuspendsOnlyWhenIdle ==
    [][Suspends =>
          /\ current_message' = 0 /\ msg' = 0 /\ chan' = <<>>
          /\ outstanding_done']_vars

\* C18 (amended): the worker suspends only when it holds no message and
\* the channel has none, and either poll_outstanding answered Ready since
\* the last dispatch or the worker is finishing and poll_close answered
\* NotReady.
C18_SuspendsAmended ==
    [][Suspends =>
          /\ current_message' = 0 /\ msg' = 0 /\ chan' = <<>>
          /\ \/ (wpc = "next" /\ ~finish' /\ ~any_outstanding /\ outstanding_done')
             \/ (wpc = "post" /\ finish /\ SendersGone)]_vars

\* C18 witness: the worker is suspended, not finishing, after a dispatch
\* whose outstanding work poll_outstanding reported done.
C18_Witness ==
    wpc = "idle" /\ ~finish /\ calls # <<>> /\ outstanding_done /\ term = "none"

\* C19 (as claimed): when the channel has no message and poll_outstanding
\* answers NotReady, Worker::poll returns instead of going round its loop
\* again.
C19_NoBusyWait ==
    [][(wpc = "post" /\ ~finish /\ chan = <<>> /\ any_outstanding'
            /\ wpc' # "post") => wpc' # "next"]_vars

\* C20: while finish is true the worker holds no message, the channel has
\* ended and poll_next_msg yields None; finish stays true, nothing is
\* passed to the service, and of the service only poll_close is polled.
C20_FinishAbsorbing ==
    /\ [](finish =>
            /\ current_message = 0 /\ msg = 0
            /\ chan = <<>> /\ SendersGone
            /\ wpc # "ready"
            /\ PollNextMsg.res = "None")
    /\ [][finish =>
            /\ finish'
            /\ calls' = calls
            /\ ~(wpc = "post" /\ wpc' = "next")
            /\ term' \in {term, "CloseOk", "CloseErr"}]_vars

\* C20 witness: the finishing worker is suspended on poll_close after it
\* had dispatched a request.
C20_Witness == finish /\ wpc = "idle" /\ calls # <<>>

====
